---- MODULE Spec2Model ----
(***************************************************************************)
(* A model of the thread pool of src/src/lib.rs: a ThreadPool owning a     *)
(* Vec<Worker>, the Sender of an mpsc channel and an Arc<Mutex<Receiver>>  *)
(* that every worker thread shares.  Worker threads loop: lock the mutex,  *)
(* recv a message, release the guard at the end of the statement, then run *)
(* the job or break on Shutdown.                                           *)
(***************************************************************************)
EXTENDS Integers, Sequences, FiniteSets

\* ---- bounds of the model ----
\* largest thread_count / new_thread_count a caller passes
MaxThreadCount == 2
\* number of worker threads ever spawned (caps the growth of the pool)
MaxSpawned == 3
\* number of calls of new, set_thread_count and execute
MaxCalls == 4

Tids == 1..MaxSpawned
Jobs == 1..MaxCalls

\* Option::None of Worker.thread, and "no message in hand"
None == 0
NoMsg == [kind |-> "none", seq |-> 0, job |-> 0]

VARIABLES
    pool,        \* lifecycle of the ThreadPool value
    workers,     \* ThreadPool.workers: Seq of [id, thread]
    channel,     \* "none" | "open" (Sender alive) | "closed" (Sender dropped)
    queue,       \* messages in the mpsc channel, oldest first
    mutexLocked, \* the Mutex around the Receiver is held
    poisoned,    \* the Mutex is poisoned (a holder panicked)
    pc,          \* per thread: position in the closure of Worker::new
    guard,       \* per thread: holds the MutexGuard
    msg,         \* per thread: `message` / the job being run
    wid,         \* per thread: the id captured by the closure
    dropIdx,     \* loop index of the two loops of drop
    \* ---- history (ghost) variables ----
    calls,       \* number of API calls made so far
    lastOp,      \* the last API call: [op, arg, before: tracked workers at
                 \* the call, live: for execute, threads running at the call]
    newCount,    \* thread_count given to new (-1: not called)
    requested,   \* count last requested by new / set_thread_count
    shrunk,      \* some set_thread_count call removed workers
    grown,       \* some set_thread_count call added workers
    sent,        \* number of messages sent (sequence numbers)
    submitted,   \* number of jobs submitted
    jobFails,    \* per job: the closure panics when run
    shutdownsSent, \* Shutdown messages sent by drop
    joined,      \* join calls of drop that returned Ok
    sendFailed,  \* some send returned Err (unwrap panicked)
    deqLog,      \* sequence numbers in the order they were dequeued
    takenBy,     \* per job: threads that dequeued it
    runs,        \* per job: number of times it was invoked
    finished,    \* jobs that returned, in completion order
    aborted,     \* jobs that panicked
    shutdownsTaken \* per thread: number of Shutdown messages it dequeued

vars == <<pool, workers, channel, queue, mutexLocked, poisoned, pc, guard, msg,
          wid, dropIdx, calls, lastOp, newCount, requested, shrunk, grown,
          sent, submitted, jobFails, shutdownsSent, joined, sendFailed,
          deqLog, takenBy, runs, finished, aborted, shutdownsTaken>>

poolVars == <<pool, workers, channel, dropIdx>>
threadVars == <<pc, guard, msg, wid, mutexLocked, poisoned>>
callVars == <<calls, lastOp, newCount, requested, shrunk, grown>>
jobVars == <<submitted, jobFails>>
dropHist == <<shutdownsSent, joined>>
workHist == <<deqLog, takenBy, runs, finished, aborted, shutdownsTaken>>

\* ---- helpers ----
Spawned == {t \in Tids : pc[t] # "unborn"}
NThreads == Cardinality(Spawned)
\* a thread whose closure has not returned or unwound still owns its Arc clone
Alive(t) == pc[t] \in {"lock", "recv", "stmt_end", "job"}
Terminated(t) == pc[t] \in {"done", "panicked"}
PoolExists == pool \in {"live", "drop_send", "drop_join"}
LiveThreads == Cardinality({t \in Tids : Alive(t)})

Init ==
    /\ pool = "uninit"
    /\ workers = <<>>
    /\ channel = "none"
    /\ queue = <<>>
    /\ mutexLocked = FALSE
    /\ poisoned = FALSE
    /\ pc = [t \in Tids |-> "unborn"]
    /\ guard = [t \in Tids |-> FALSE]
    /\ msg = [t \in Tids |-> NoMsg]
    /\ wid = [t \in Tids |-> 0]
    /\ dropIdx = 0
    /\ calls = 0
    /\ lastOp = [op |-> "none", arg |-> 0, before |-> 0, live |-> 0]
    /\ newCount = -1
    /\ requested = -1
    /\ shrunk = FALSE
    /\ grown = FALSE
    /\ sent = 0
    /\ submitted = 0
    /\ jobFails = [j \in Jobs |-> FALSE]
    /\ shutdownsSent = 0
    /\ joined = 0
    /\ sendFailed = FALSE
    /\ deqLog = <<>>
    /\ takenBy = [j \in Jobs |-> {}]
    /\ runs = [j \in Jobs |-> 0]
    /\ finished = <<>>
    /\ aborted = {}
    /\ shutdownsTaken = [t \in Tids |-> 0]

\* ---- the channel ----
\* strong count of the Arc<Mutex<Receiver>>: the pool's field plus the clone
\* each running closure owns; the Receiver lives while this is positive
ReceiverRefs_NoPoolHandle == LiveThreads
ReceiverRefs == (IF PoolExists THEN 1 ELSE 0) + LiveThreads

\* sender.send(message).unwrap(): Err (and a panic) when the Receiver is gone
Send(kind, job) ==
    IF ReceiverRefs > 0
    THEN /\ queue' = Append(queue, [kind |-> kind, seq |-> sent + 1, job |-> job])
         /\ sent' = sent + 1
         /\ UNCHANGED <<sendFailed, pool, channel>>
    ELSE /\ sendFailed' = TRUE
         /\ pool' = "panicked"
         /\ channel' = "closed"
         /\ UNCHANGED <<queue, sent>>

\* ---- Worker::new ----
\* id of the i-th worker (i from 0) pushed by new
NewId(i) == i + 1
\* id of the i-th worker (i from 0) pushed by a grow from `current` workers
GrowId_NoOffset(i, current) == i + 1
GrowId(i, current) == i + 1 + current

\* thread::spawn for k workers: the threads NThreads+1 .. NThreads+k start at
\* the top of the loop; ids[i] is the id of the i-th of them (i from 1)
SpawnThreads(k, ids) ==
    /\ pc' = [t \in Tids |->
                IF t \in (NThreads + 1)..(NThreads + k) THEN "lock" ELSE pc[t]]
    /\ wid' = [t \in Tids |->
                IF t \in (NThreads + 1)..(NThreads + k) THEN ids[t - NThreads]
                ELSE wid[t]]
NewWorkers(k, ids) ==
    [i \in 1..k |-> [id |-> ids[i], thread |-> NThreads + i]]

\* ---- ThreadPool::new ----
New_NoCheck(n) ==
    /\ pool = "uninit"
    /\ calls < MaxCalls
    /\ calls' = calls + 1
    /\ lastOp' = [op |-> "new", arg |-> n, before |-> 0, live |-> 0]
    /\ newCount' = n
    /\ LET ids == [i \in 1..n |-> NewId(i - 1)] IN
        /\ channel' = "open"
        /\ workers' = NewWorkers(n, ids)
        /\ SpawnThreads(n, ids)
        /\ pool' = "live"
        /\ requested' = n
    /\ UNCHANGED <<queue, mutexLocked, poisoned, guard, msg, dropIdx, shrunk,
                   grown, sent, sendFailed, jobVars, dropHist, workHist>>

New(n) ==
    /\ pool = "uninit"
    /\ calls < MaxCalls
    /\ calls' = calls + 1
    /\ lastOp' = [op |-> "new", arg |-> n, before |-> 0, live |-> 0]
    /\ newCount' = n
    /\ IF n = 0
       THEN \* assert_ne!(thread_count, 0) panics before anything is created
            /\ pool' = "failed"
            /\ UNCHANGED <<channel, workers, pc, wid, requested>>
       ELSE LET ids == [i \in 1..n |-> NewId(i - 1)] IN
            /\ channel' = "open"
            /\ workers' = NewWorkers(n, ids)
            /\ SpawnThreads(n, ids)
            /\ pool' = "live"
            /\ requested' = n
    /\ UNCHANGED <<queue, mutexLocked, poisoned, guard, msg, dropIdx, shrunk,
                   grown, sent, sendFailed, jobVars, dropHist, workHist>>

\* ---- ThreadPool::set_thread_count ----
\* the worker list after the pops that leave n workers: Vec::pop removes
\* the last element
Popped_FromFront(ws, n) == SubSeq(ws, Len(ws) - n + 1, Len(ws))
Popped(ws, n) == SubSeq(ws, 1, n)
\* the threads whose Worker the pops remove
PoppedThreads(ws, n) ==
    {ws[i].thread : i \in {k \in DOMAIN ws : \A m \in DOMAIN Popped(ws, n) :
                                               Popped(ws, n)[m] # ws[k]}}
\* position of a thread once its Worker, and with it the JoinHandle, is
\* dropped: the thread is detached and runs on
DetachedPc_Aborted(p) == "done"
DetachedPc(p) == p

SetThreadCount_SpawnOnEqual(n) ==
    /\ pool = "live"
    /\ calls < MaxCalls
    /\ LET current == Len(workers)
           k == IF n >= current THEN n - current + 1 ELSE 0
           ids == [i \in 1..k |-> GrowId(i - 1, current)]
       IN  /\ NThreads + k <= MaxSpawned
           /\ calls' = calls + 1
           /\ lastOp' = [op |-> "set_thread_count", arg |-> n, before |-> current,
                       live |-> 0]
           /\ requested' = n
           /\ workers' = IF n >= current THEN workers \o NewWorkers(k, ids)
                         ELSE SubSeq(workers, 1, n)
           /\ SpawnThreads(k, ids)
           /\ grown' = (grown \/ n >= current)
           /\ shrunk' = (shrunk \/ n < current)
    /\ UNCHANGED <<pool, channel, queue, mutexLocked, poisoned, guard, msg,
                   dropIdx, newCount, sent, sendFailed, jobVars, dropHist,
                   workHist>>

SetThreadCount(n) ==
    /\ pool = "live"
    /\ calls < MaxCalls
    /\ LET current == Len(workers)
           ids == [i \in 1..(n - current) |-> GrowId(i - 1, current)]
       IN  /\ calls' = calls + 1
           /\ lastOp' = [op |-> "set_thread_count", arg |-> n, before |-> current,
                       live |-> 0]
           /\ requested' = n
           /\ IF n > current
              THEN \* push new_thread_count - current_thread_count workers
                   /\ NThreads + (n - current) <= MaxSpawned
                   /\ workers' = workers \o NewWorkers(n - current, ids)
                   /\ SpawnThreads(n - current, ids)
                   /\ grown' = TRUE
                   /\ UNCHANGED shrunk
              ELSE IF n < current
              THEN \* pop the last workers; dropping a JoinHandle detaches
                   \* the thread, which keeps running
                   /\ workers' = Popped(workers, n)
                   /\ pc' = [t \in Tids |->
                               IF t \in PoppedThreads(workers, n)
                               THEN DetachedPc(pc[t]) ELSE pc[t]]
                   /\ shrunk' = TRUE
                   /\ UNCHANGED <<wid, grown>>
              ELSE UNCHANGED <<workers, pc, wid, grown, shrunk>>
    /\ UNCHANGED <<pool, channel, queue, mutexLocked, poisoned, guard, msg,
                   dropIdx, newCount, sent, sendFailed, jobVars, dropHist,
                   workHist>>

\* ---- ThreadPool::execute ----
\* fails: whether the submitted closure panics when it is run
Execute(fails) ==
    /\ pool = "live"
    /\ calls < MaxCalls
    /\ calls' = calls + 1
    /\ lastOp' = [op |-> "execute", arg |-> submitted + 1,
                   before |-> Len(workers), live |-> LiveThreads]
    /\ submitted' = submitted + 1
    /\ jobFails' = [jobFails EXCEPT ![submitted + 1] = fails]
    /\ Send("NewJob", submitted + 1)
    /\ UNCHANGED <<workers, mutexLocked, poisoned, pc, guard, msg, wid, dropIdx,
                   newCount, requested, shrunk, grown, dropHist, workHist>>

\* ---- Drop for ThreadPool ----
\* the pool goes out of scope: drop starts (info! log), first loop at index 1
BeginDrop ==
    /\ pool = "live"
    /\ pool' = "drop_send"
    /\ dropIdx' = 1
    /\ lastOp' = [op |-> "drop", arg |-> 0, before |-> Len(workers), live |-> 0]
    /\ UNCHANGED <<workers, channel, queue, threadVars, calls, newCount,
                   requested, shrunk, grown, sent, sendFailed, jobVars,
                   dropHist, workHist>>

\* number of Shutdown messages the first loop sends
ShutdownCount_EverSpawned == NThreads
ShutdownCount_OneLess == IF Len(workers) > 0 THEN Len(workers) - 1 ELSE 0
ShutdownCount == Len(workers)

\* for _ in &self.workers { self.sender.send(Shutdown).unwrap(); }
DropSend ==
    /\ pool = "drop_send"
    /\ IF dropIdx <= ShutdownCount
       THEN /\ Send("Shutdown", 0)
            /\ shutdownsSent' = shutdownsSent + 1
            /\ dropIdx' = dropIdx + 1
       ELSE \* the first loop is over: on to the join loop
            /\ pool' = "drop_join"
            /\ dropIdx' = 1
            /\ UNCHANGED <<channel, queue, sent, sendFailed, shutdownsSent>>
    /\ UNCHANGED <<workers, threadVars, callVars, jobVars, joined, workHist>>

\* for worker in &mut self.workers { if let Some(t) = worker.thread.take()
\*   { t.join().unwrap(); } }   join blocks until the thread has ended
DropJoin ==
    /\ pool = "drop_join"
    /\ IF dropIdx <= Len(workers)
       THEN LET t == workers[dropIdx].thread IN
            IF t = None
            THEN /\ dropIdx' = dropIdx + 1
                 /\ UNCHANGED <<pool, channel, workers, joined>>
            ELSE /\ Terminated(t)
                 /\ workers' = [workers EXCEPT ![dropIdx].thread = None]
                 /\ IF pc[t] = "done"
                    THEN /\ joined' = joined + 1
                         /\ dropIdx' = dropIdx + 1
                         /\ UNCHANGED <<pool, channel>>
                    ELSE \* join returns Err for a panicked thread: unwrap
                         \* panics, the fields are dropped while unwinding
                         /\ pool' = "panicked"
                         /\ channel' = "closed"
                         /\ UNCHANGED <<joined, dropIdx>>
       ELSE \* drop returns; the fields (Sender, Arc, Vec) are dropped
            /\ pool' = "dropped"
            /\ channel' = "closed"
            /\ UNCHANGED <<workers, joined, dropIdx>>
    /\ UNCHANGED <<queue, threadVars, callVars, sent, sendFailed, jobVars,
                   shutdownsSent, workHist>>

\* ---- the closure of Worker::new (one thread) ----
\* receiver.lock().unwrap(): blocks while the mutex is held; on a poisoned
\* mutex lock returns Err, unwrap panics and the guard inside it is dropped
MayLock_NoExclusion(t) == TRUE
MayLock(t) == ~mutexLocked

WLock(t) ==
    /\ pc[t] = "lock"
    /\ MayLock(t)
    /\ IF poisoned
       THEN /\ pc' = [pc EXCEPT ![t] = "panicked"]
            /\ UNCHANGED <<mutexLocked, guard>>
       ELSE /\ pc' = [pc EXCEPT ![t] = "recv"]
            /\ mutexLocked' = TRUE
            /\ guard' = [guard EXCEPT ![t] = TRUE]
    /\ UNCHANGED <<poolVars, queue, poisoned, msg, wid, callVars, sent,
                   sendFailed, jobVars, dropHist, workHist>>

\* the message recv hands out, and what it leaves in the channel
\* (the channel is first in, first out: recv takes the oldest message)
RecvIndex_Newest(q) == Len(q)
RecvIndex(q) == 1
RecvPick(q) == q[RecvIndex(q)]
RecvRest_Peek(q) == q
RecvRest(q) ==
    SubSeq(q, 1, RecvIndex(q) - 1) \o SubSeq(q, RecvIndex(q) + 1, Len(q))

\* recv on an empty channel returns Err once every Sender is dropped; the
\* pool's field is the only Sender (no clone is ever made)
Disconnected_Never == FALSE
Disconnected == channel = "closed"

\* .recv().unwrap(): blocks while the channel is empty and a Sender exists;
\* Err once it is empty and every Sender is dropped, and unwrap then panics
\* with the guard still alive, which poisons the mutex
WRecv(t) ==
    /\ pc[t] = "recv"
    /\ IF queue # <<>>
       THEN LET m == RecvPick(queue) IN
            /\ msg' = [msg EXCEPT ![t] = m]
            /\ queue' = RecvRest(queue)
            /\ pc' = [pc EXCEPT ![t] = "stmt_end"]
            /\ deqLog' = Append(deqLog, m.seq)
            /\ takenBy' = IF m.kind = "NewJob"
                          THEN [takenBy EXCEPT ![m.job] = @ \cup {t}]
                          ELSE takenBy
            /\ shutdownsTaken' = IF m.kind = "Shutdown"
                                 THEN [shutdownsTaken EXCEPT ![t] = @ + 1]
                                 ELSE shutdownsTaken
            /\ UNCHANGED <<mutexLocked, poisoned, guard>>
       ELSE /\ Disconnected
            /\ pc' = [pc EXCEPT ![t] = "panicked"]
            /\ poisoned' = TRUE
            /\ mutexLocked' = FALSE
            /\ guard' = [guard EXCEPT ![t] = FALSE]
            /\ UNCHANGED <<msg, queue, deqLog, takenBy, shutdownsTaken>>
    /\ UNCHANGED <<poolVars, wid, callVars, sent, sendFailed, jobVars,
                   dropHist, runs, finished, aborted>>

\* whether the MutexGuard temporary is dropped at the end of the `let`
\* statement, before the match
GuardDroppedAtStatementEnd_Kept == FALSE
GuardDroppedAtStatementEnd == TRUE

\* whether the loop is left on a Shutdown message (`break`)
BreaksOnShutdown_Never(m) == FALSE
BreaksOnShutdown(m) == m.kind = "Shutdown"

\* end of `let message = ...;` and the match: the job is invoked, or the
\* loop is left
WDispatch(t) ==
    /\ pc[t] = "stmt_end"
    /\ IF GuardDroppedAtStatementEnd \/ msg[t].kind # "NewJob"
       THEN /\ guard' = [guard EXCEPT ![t] = FALSE]
            /\ mutexLocked' = FALSE
       ELSE UNCHANGED <<guard, mutexLocked>>
    /\ IF msg[t].kind = "NewJob"
       THEN /\ pc' = [pc EXCEPT ![t] = "job"]
            /\ runs' = [runs EXCEPT ![msg[t].job] = @ + 1]
            /\ UNCHANGED msg
       ELSE IF BreaksOnShutdown(msg[t])
       THEN /\ pc' = [pc EXCEPT ![t] = "done"]
            /\ msg' = [msg EXCEPT ![t] = NoMsg]
            /\ UNCHANGED runs
       ELSE /\ pc' = [pc EXCEPT ![t] = "lock"]
            /\ msg' = [msg EXCEPT ![t] = NoMsg]
            /\ UNCHANGED runs
    /\ UNCHANGED <<poolVars, queue, poisoned, wid, callVars, sent, sendFailed,
                   jobVars, dropHist, deqLog, takenBy, finished, aborted,
                   shutdownsTaken>>

\* job() returns: back to the top of the loop
WJobReturn(t) ==
    /\ pc[t] = "job"
    /\ ~jobFails[msg[t].job]
    /\ pc' = [pc EXCEPT ![t] = "lock"]
    /\ finished' = Append(finished, msg[t].job)
    /\ msg' = [msg EXCEPT ![t] = NoMsg]
    /\ IF guard[t]
       THEN /\ guard' = [guard EXCEPT ![t] = FALSE]
            /\ mutexLocked' = FALSE
       ELSE UNCHANGED <<guard, mutexLocked>>
    /\ UNCHANGED <<poolVars, queue, poisoned, wid, callVars, sent, sendFailed,
                   jobVars, dropHist, deqLog, takenBy, runs, aborted,
                   shutdownsTaken>>

\* job() panics: the thread unwinds and ends; it holds no guard
WJobPanic(t) ==
    /\ pc[t] = "job"
    /\ jobFails[msg[t].job]
    /\ pc' = [pc EXCEPT ![t] = "panicked"]
    /\ aborted' = aborted \cup {msg[t].job}
    /\ msg' = [msg EXCEPT ![t] = NoMsg]
    /\ IF guard[t]
       THEN /\ guard' = [guard EXCEPT ![t] = FALSE]
            /\ mutexLocked' = FALSE
            /\ poisoned' = TRUE
       ELSE UNCHANGED <<guard, mutexLocked, poisoned>>
    /\ UNCHANGED <<poolVars, queue, wid, callVars, sent, sendFailed, jobVars,
                   dropHist, deqLog, takenBy, runs, finished, shutdownsTaken>>

WorkerStep(t) ==
    \/ WLock(t)
    \/ WRecv(t)
    \/ WDispatch(t)
    \/ WJobReturn(t)
    \/ WJobPanic(t)

DropStep == DropSend \/ DropJoin

Next ==
    \/ \E n \in 0..MaxThreadCount : New(n)
    \/ \E n \in 0..MaxThreadCount : SetThreadCount(n)
    \/ \E fails \in BOOLEAN : Execute(fails)
    \/ BeginDrop
    \/ DropSend
    \/ DropJoin
    \/ \E t \in Tids : WLock(t)
    \/ \E t \in Tids : WRecv(t)
    \/ \E t \in Tids : WDispatch(t)
    \/ \E t \in Tids : WJobReturn(t)
    \/ \E t \in Tids : WJobPanic(t)

Spec == Init /\ [][Next]_vars

\* Scheduling: every worker thread is an OS thread that keeps running, and
\* the thread inside drop keeps running; the mutex is not a fair lock, so a
\* thread waiting for it is only weakly fair.  Nothing obliges the caller
\* to make further API calls.
FairSpec ==
    /\ Spec
    /\ \A t \in Tids : WF_vars(WorkerStep(t))
    /\ WF_vars(DropStep)

\* A caller that constructs a pool, submits jobs and drops it, and never
\* calls set_thread_count; the threads are scheduled as in FairSpec.
NextNoResize ==
    \/ \E n \in 0..MaxThreadCount : New(n)
    \/ \E fails \in BOOLEAN : Execute(fails)
    \/ BeginDrop
    \/ DropSend
    \/ DropJoin
    \/ \E t \in Tids : WLock(t)
    \/ \E t \in Tids : WRecv(t)
    \/ \E t \in Tids : WDispatch(t)
    \/ \E t \in Tids : WJobReturn(t)
    \/ \E t \in Tids : WJobPanic(t)

FairSpecNoResize ==
    /\ Init /\ [][NextNoResize]_vars
    /\ \A t \in Tids : WF_vars(WorkerStep(t))
    /\ WF_vars(DropStep)

\* ======================= properties =======================
Range(f) == {f[i] : i \in DOMAIN f}
\* positions of job j in the channel
QueuedAt(j) == {i \in DOMAIN queue : queue[i].kind = "NewJob" /\ queue[i].job = j}
\* positions of job j in the completion log
FinishedAt(j) == {i \in DOMAIN finished : finished[i] = j}
\* no submitted closure is one that panics
NoJobFails == \A j \in 1..submitted : ~jobFails[j]
\* every join call of drop has returned
JoinsReturned ==
    \/ pool = "drop_join" /\ dropIdx > Len(workers)
    \/ pool = "dropped"

\* C1: every submitted job is at any time either still in the queue (once)
\* or has been dequeued by exactly one worker thread; it is invoked at most
\* once, and only by the thread that dequeued it, which holds it from the
\* dequeue until the job has returned or panicked.
ExactlyOnceDispatch ==
    \A j \in Jobs :
        /\ Cardinality(takenBy[j]) <= 1
        /\ runs[j] <= 1
        /\ Cardinality(FinishedAt(j)) + (IF j \in aborted THEN 1 ELSE 0) <= runs[j]
        /\ j > submitted => QueuedAt(j) = {} /\ takenBy[j] = {} /\ runs[j] = 0
        /\ (j <= submitted /\ ~sendFailed) =>
              Cardinality(QueuedAt(j)) + Cardinality(takenBy[j]) = 1
        /\ \A t \in takenBy[j] :
              \/ pc[t] = "stmt_end" /\ msg[t].job = j /\ runs[j] = 0
              \/ pc[t] = "job" /\ msg[t].job = j /\ runs[j] = 1
                   /\ FinishedAt(j) = {} /\ j \notin aborted
              \/ /\ runs[j] = 1
                 /\ Cardinality(FinishedAt(j)) + (IF j \in aborted THEN 1 ELSE 0) = 1
                 /\ \A u \in Tids : msg[u].job # j
        /\ \A t \in Tids : (msg[t].kind = "NewJob" /\ msg[t].job = j) => t \in takenBy[j]

\* C1 witness: after a shrink two jobs have run to completion on two
\* different threads, one of them no longer tracked by the pool.
ExactlyOnceDispatchWitness ==
    /\ shrunk
    /\ \E j1, j2 \in Jobs :
          /\ j1 # j2
          /\ {j1, j2} \subseteq Range(finished)
          /\ takenBy[j1] # takenBy[j2]
          /\ \E t \in takenBy[j2] : \A i \in DOMAIN workers : workers[i].thread # t

\* C2 (as claimed): once every join call of drop has returned, every job
\* submitted to a pool that had at least one tracked worker has finished,
\* provided no job fails.
AllJobsDoneWhenJoinsReturn ==
    (JoinsReturned /\ Len(workers) >= 1 /\ NoJobFails /\ ~sendFailed)
        => \A j \in 1..submitted : j \in Range(finished)

\* C3: messages are dequeued in the order they were sent: the k-th dequeue
\* (by whichever thread) takes the k-th message sent.
DequeueInSendOrder ==
    /\ Len(deqLog) <= sent
    /\ \A i \in DOMAIN deqLog : deqLog[i] = i

\* C3 witness: two jobs and a Shutdown were dequeued in send order while the
\* jobs completed in the opposite order.
DequeueInSendOrderWitness ==
    /\ Len(deqLog) >= 3
    /\ Len(finished) >= 2
    /\ finished[1] > finished[2]
    /\ shutdownsSent >= 1

\* C4 (for a caller that never calls set_thread_count): a pool constructed
\* with K workers and dropped without any resize, no job failing: drop, once started, returns; and when it has returned it
\* has sent exactly K Shutdown messages and made exactly K successful joins,
\* and every one of the K threads spawned has left its loop.
ShutdownCompleteness ==
    /\ [](( /\ pool = "dropped"
            /\ ~grown /\ ~shrunk /\ NoJobFails )
          => /\ shutdownsSent = newCount
             /\ joined = newCount
             /\ NThreads = newCount
             /\ \A t \in Spawned : pc[t] = "done"
             /\ \A i \in DOMAIN workers : workers[i].thread = None)
    /\ (( pool = "drop_send" /\ ~grown /\ ~shrunk /\ NoJobFails )
          ~> ( pool = "dropped" ))

\* C4 witness: a pool of two workers that ran a job was dropped without
\* ever being resized, and drop has returned.
ShutdownCompletenessWitness ==
    /\ pool = "dropped"
    /\ ~grown /\ ~shrunk /\ NoJobFails
    /\ newCount = 2
    /\ Len(finished) >= 1

\* C5 (as claimed): whatever grows and shrinks came before, drop, once
\* started with no failing job submitted, eventually returns.
TeardownReturns ==
    ( pool = "drop_send" /\ NoJobFails ) ~> ( pool = "dropped" )

\* C6: new(0) fails before anything is created: no pool, no channel, no
\* message, no worker and no thread exist afterwards.
ZeroCapacityRejected ==
    newCount = 0 =>
        /\ pool = "failed"
        /\ channel = "none"
        /\ queue = <<>> /\ sent = 0
        /\ workers = <<>>
        /\ NThreads = 0
        /\ requested = -1

\* C6 witness: new(0) was called and failed.
ZeroCapacityRejectedWitness ==
    /\ lastOp.op = "new" /\ lastOp.arg = 0
    /\ pool = "failed"

\* C7: a set_thread_count call whose argument equals the number of tracked
\* workers changes neither the worker list, nor any thread, nor the channel.
SameCountIsNoOp ==
    [][ ( /\ calls' = calls + 1
          /\ lastOp'.op = "set_thread_count"
          /\ lastOp'.arg = Len(workers) )
        => UNCHANGED <<workers, pc, wid, guard, msg, mutexLocked, poisoned,
                       queue, sent, channel, pool>> ]_vars

\* C7 witness: set_thread_count(2) was called on a pool tracking 2 workers
\* with a message pending.
SameCountIsNoOpWitness ==
    /\ lastOp.op = "set_thread_count"
    /\ lastOp.arg = 2 /\ lastOp.before = 2
    /\ queue # <<>>

\* C8: while the pool exists the tracked workers number the count last
\* requested and carry the ids 1, 2, ..., count in list order (each thread
\* having captured the id of its Worker); new(N) spawns exactly N threads
\* and a grow from c to n exactly n - c threads, with the ids c+1 .. n.
TrackedIdsSequential ==
    /\ [](PoolExists =>
            /\ Len(workers) = requested
            /\ \A i \in DOMAIN workers :
                  /\ workers[i].id = i
                  /\ workers[i].thread # None => wid[workers[i].thread] = i)
    /\ [][ ( /\ calls' = calls + 1
             /\ lastOp'.op \in {"new", "set_thread_count"}
             /\ lastOp'.arg > Len(workers) )
           => /\ NThreads' - NThreads = lastOp'.arg - Len(workers)
              /\ Spawned \subseteq Spawned'
              /\ {wid'[t] : t \in Spawned' \ Spawned}
                    = (Len(workers) + 1)..(lastOp'.arg) ]_vars

\* C8 witness: a pool that was shrunk and grown again tracks two workers.
TrackedIdsSequentialWitness ==
    /\ pool = "live"
    /\ shrunk /\ grown
    /\ lastOp.op = "set_thread_count" /\ lastOp.arg > lastOp.before
    /\ Len(workers) = 2

\* C9: no send ever fails, so every execute and every iteration of drop's
\* first loop has put its message into the channel: while the pool exists
\* its Sender is alive and the Receiver is alive too, whatever the number
\* of tracked workers and of running threads.
SendNeverFails ==
    /\ ~sendFailed
    /\ sent = submitted + shutdownsSent
    /\ PoolExists => (channel = "open" /\ ReceiverRefs > 0)

\* C9 witness: a job was sent to a pool tracking no worker at a moment when
\* no worker thread was running, and it sits in the channel.
SendNeverFailsWitness ==
    /\ pool = "live"
    /\ lastOp.op = "execute" /\ lastOp.before = 0 /\ lastOp.live = 0
    /\ QueuedAt(lastOp.arg) # {}

\* C10: at most one thread holds the guard of the receiver's mutex, the
\* mutex is held exactly when some thread holds its guard, and a thread is
\* inside recv only while it holds the guard.
AtMostOneDequeuing ==
    /\ Cardinality({t \in Tids : guard[t]}) <= 1
    /\ mutexLocked <=> (\E t \in Tids : guard[t])
    /\ \A t \in Tids : pc[t] = "recv" => guard[t]

\* C10 witness: a thread removed by a shrink is blocked inside recv holding
\* the guard while a tracked worker waits for the mutex.
AtMostOneDequeuingWitness ==
    \E t, u \in Tids :
        /\ t # u
        /\ pc[t] = "recv" /\ guard[t] /\ queue = <<>>
        /\ \A i \in DOMAIN workers : workers[i].thread # t
        /\ pc[u] = "lock"
        /\ \E i \in DOMAIN workers : workers[i].thread = u

\* C11: a thread holds the guard only while it dequeues one message (inside
\* recv, or between recv's return and the end of the statement): no thread
\* that is running a job, waiting for the mutex or ended holds the guard.
NoLockWhileExecuting ==
    \A t \in Tids :
        /\ pc[t] = "job" => ~guard[t]
        /\ guard[t] => pc[t] \in {"recv", "stmt_end"}
        /\ pc[t] = "stmt_end" => (guard[t] /\ msg[t] # NoMsg)

\* C11 witness: one thread runs a job while another thread holds the guard
\* inside recv.
NoLockWhileExecutingWitness ==
    \E t, u \in Tids :
        /\ pc[t] = "job" /\ ~guard[t]
        /\ pc[u] = "recv" /\ guard[u]

\* C12: running a job never keeps other threads from dequeuing: whenever
\* some thread runs a job and no thread is in the middle of a dequeue,
\* every thread waiting at the top of its loop can take the mutex.
ExecutionNotSerialized ==
    ( /\ \E t \in Tids : pc[t] = "job"
      /\ \A t \in Tids : pc[t] \notin {"recv", "stmt_end"} )
    => \A u \in Tids : pc[u] = "lock" => ENABLED WLock(u)

\* C12 witness: two threads run two different jobs at the same time.
ExecutionNotSerializedWitness ==
    \E t, u \in Tids :
        /\ t # u
        /\ pc[t] = "job" /\ pc[u] = "job"
        /\ msg[t].job # msg[u].job
        /\ ~mutexLocked

\* C13: while the pool exists and no submitted job fails, a thread leaves
\* its loop only by the step that follows the dequeue of a Shutdown; after
\* the dequeue of a job it runs the job and comes back to the top of the
\* loop; a thread that has left its loop never moves again; and no thread
\* ever dequeues a second Shutdown.
LeavesOnlyOnShutdown ==
    /\ [](\A t \in Tids :
            /\ shutdownsTaken[t] <= 1
            /\ (PoolExists /\ NoJobFails /\ Terminated(t)) =>
                  (pc[t] = "done" /\ shutdownsTaken[t] = 1))
    /\ [][ \A t \in Tids :
             /\ (PoolExists /\ NoJobFails /\ Alive(t) /\ ~Alive(t)')
                  => /\ pc[t] = "stmt_end" /\ msg[t].kind = "Shutdown"
                     /\ pc'[t] = "done"
             /\ (pc[t] = "stmt_end" /\ msg[t].kind = "NewJob" /\ pc'[t] # pc[t])
                  => pc'[t] = "job"
             /\ (pc[t] = "stmt_end" /\ msg[t].kind = "Shutdown" /\ pc'[t] # pc[t])
                  => pc'[t] = "done"
             /\ (PoolExists /\ NoJobFails /\ pc[t] = "job" /\ pc'[t] # pc[t])
                  => pc'[t] = "lock"
             /\ Terminated(t)
                  => (pc'[t] = pc[t] /\ shutdownsTaken'[t] = shutdownsTaken[t]) ]_vars

\* C13 witness: a worker that ran a job has left its loop on a Shutdown
\* while the pool still exists and another Shutdown waits in the channel.
LeavesOnlyOnShutdownWitness ==
    /\ PoolExists /\ NoJobFails
    /\ \E t \in Tids :
          /\ pc[t] = "done" /\ shutdownsTaken[t] = 1
          /\ \E j \in Range(finished) : t \in takenBy[j]
    /\ \E i \in DOMAIN queue : queue[i].kind = "Shutdown"

\* Shutdown messages waiting in the channel
QueuedShutdowns == {i \in DOMAIN queue : queue[i].kind = "Shutdown"}

\* C14: whatever resizes came before, drop sends one Shutdown per worker
\* tracked when it starts and joins that many threads before it returns,
\* however many threads were ever spawned; with no tracked worker it sends
\* nothing, joins nothing and is never blocked.
ShutdownsMatchTracked ==
    /\ pool \in {"drop_send", "drop_join", "dropped"} =>
          lastOp.op = "drop" /\ lastOp.before = Len(workers)
    /\ pool = "drop_send" =>
          shutdownsSent = dropIdx - 1 /\ shutdownsSent <= Len(workers) /\ joined = 0
    /\ pool \in {"drop_join", "dropped"} => shutdownsSent = Len(workers)
    /\ pool = "drop_join" => joined = dropIdx - 1 /\ joined <= Len(workers)
    /\ pool = "dropped" => joined = Len(workers)
    /\ (pool \in {"drop_send", "drop_join"} /\ Len(workers) = 0) =>
          shutdownsSent = 0 /\ joined = 0 /\ ENABLED DropStep
    /\ (pool = "dropped" /\ Len(workers) = 0) => Len(deqLog) + Len(queue) = submitted

\* C14 witness: drop has returned from a pool that tracked one worker while
\* two threads had been spawned, one of them removed by a shrink.
ShutdownsMatchTrackedWitness ==
    /\ pool = "dropped"
    /\ shrunk
    /\ Len(workers) = 1 /\ NThreads = 2
    /\ shutdownsSent = 1 /\ joined = 1

\* C15: in a pool never shrunk, with no failing job, no thread dequeues two
\* Shutdowns and every Shutdown sent is either still in the channel or was
\* dequeued by one thread; when drop has returned every thread spawned has
\* dequeued exactly one Shutdown and the channel is empty.
ShutdownPairing ==
    (~shrunk /\ NoJobFails) =>
        /\ \A t \in Tids : shutdownsTaken[t] <= 1
        /\ Cardinality({t \in Tids : shutdownsTaken[t] >= 1})
              + Cardinality(QueuedShutdowns) = shutdownsSent
        /\ PoolExists => NThreads = Len(workers)
        /\ pool = "dropped" =>
              /\ queue = <<>>
              /\ Len(deqLog) = sent
              /\ NThreads = shutdownsSent
              /\ \A t \in Spawned : shutdownsTaken[t] = 1 /\ pc[t] = "done"
              /\ \A j \in 1..submitted : j \in Range(finished)

\* C15 witness: drop has returned from a pool grown from one to two workers
\* that ran a job.
ShutdownPairingWitness ==
    /\ pool = "dropped"
    /\ ~shrunk /\ grown /\ NoJobFails
    /\ NThreads = 2 /\ shutdownsSent = 2
    /\ Len(finished) >= 1

\* C16 (as claimed): no two threads that are still running carry the same
\* worker id.
LiveIdsUnique ==
    \A t, u \in Tids : (t # u /\ Alive(t) /\ Alive(u)) => wid[t] # wid[u]

\* C17: a set_thread_count call with an argument n below the tracked count
\* c leaves the first n workers as they are and removes the other c - n
\* (ids n+1 .. c); it sends nothing, joins nothing and changes neither the
\* channel nor any thread, removed or not.
ShrinkOnlyUntracks ==
    [][ ( /\ calls' = calls + 1
          /\ lastOp'.op = "set_thread_count"
          /\ lastOp'.arg < Len(workers) )
        => /\ Len(workers') = lastOp'.arg
           /\ \A i \in 1..lastOp'.arg : workers'[i] = workers[i]
           /\ {workers[i].id : i \in (lastOp'.arg + 1)..Len(workers)}
                 = (lastOp'.arg + 1)..Len(workers)
           /\ UNCHANGED <<pc, wid, guard, msg, mutexLocked, poisoned, queue,
                          sent, channel, pool, shutdownsSent, joined,
                          sendFailed, deqLog, takenBy, runs, finished,
                          aborted, shutdownsTaken>> ]_vars

\* C17 witness: a job submitted to a pool shrunk to no tracked worker was
\* dequeued and run by a thread the shrink had removed.
ShrinkOnlyUntracksWitness ==
    /\ pool = "live" /\ workers = <<>>
    /\ lastOp.op = "execute" /\ lastOp.before = 0
    /\ lastOp.arg \in Range(finished)

\* q2 is q1 with one message appended
IsAppend(q1, q2) == Len(q2) = Len(q1) + 1 /\ SubSeq(q2, 1, Len(q1)) = q1

\* C18: only a thread inside recv removes a message from the channel, and
\* it removes the oldest; a step of new, set_thread_count, execute or drop
\* removes no message and moves no thread; a thread that runs a job keeps
\* that job until the job itself returns or panics.
NoCancellation ==
    [][ /\ queue' # queue =>
              \/ IsAppend(queue, queue')
              \/ /\ queue' = Tail(queue)
                 /\ \E t \in Tids : /\ pc[t] = "recv" /\ pc'[t] = "stmt_end"
                                    /\ msg'[t] = Head(queue)
        /\ (calls' # calls \/ pool' # pool \/ dropIdx' # dropIdx \/ workers' # workers)
              => /\ queue' = queue \/ IsAppend(queue, queue')
                 /\ \A t \in Spawned : pc'[t] = pc[t] /\ msg'[t] = msg[t]
        /\ \A t \in Tids :
              pc[t] = "job" =>
                 \/ pc'[t] = "job" /\ msg'[t] = msg[t]
                 \/ /\ pc'[t] = "lock"
                    /\ ~jobFails[msg[t].job]
                    /\ finished' = Append(finished, msg[t].job)
                 \/ /\ pc'[t] = "panicked"
                    /\ jobFails[msg[t].job]
                    /\ aborted' = aborted \cup {msg[t].job} ]_vars

\* C18 witness: drop waits in its join loop while a thread removed by a
\* shrink runs a job and another job is still queued.
NoCancellationWitness ==
    /\ pool = "drop_join"
    /\ shrunk
    /\ \E t \in Tids :
          /\ pc[t] = "job"
          /\ \A i \in DOMAIN workers : workers[i].thread # t
    /\ \E i \in DOMAIN queue : queue[i].kind = "NewJob"

\* submitted jobs whose closure panics
FailingJobs == {j \in 1..submitted : jobFails[j]}
\* every submitted job has been invoked
AllJobsRun == \A j \in 1..submitted : runs[j] = 1
\* fewer jobs fail than threads were spawned: some thread survives them
SomeWorkerSurvives == Cardinality(FailingJobs) < NThreads

\* C19: the step in which a job panics ends the thread that ran it and
\* nothing else: that thread holds no guard, the mutex is neither locked
\* nor poisoned by it, and every other thread stays where it is; the mutex
\* is never poisoned while the pool exists; and once a job has panicked,
\* as long as fewer jobs fail than threads were spawned (so that a worker
\* outlives the failures), every job submitted is eventually invoked.
FailureConfined ==
    /\ [](PoolExists => ~poisoned)
    /\ [][ \A t \in Tids :
             (pc[t] = "job" /\ pc'[t] = "panicked")
                => /\ ~guard[t] /\ ~guard'[t]
                   /\ UNCHANGED <<mutexLocked, poisoned, queue, guard>>
                   /\ \A u \in Tids \ {t} : pc'[u] = pc[u] /\ msg'[u] = msg[u] ]_vars
    /\ ( (aborted # {} /\ SomeWorkerSurvives)
           ~> (AllJobsRun \/ ~SomeWorkerSurvives) )

\* C19 witness: a job submitted when a worker thread had already died of a
\* panicking job has been run to completion by another worker.
FailureConfinedWitness ==
    /\ pool = "live"
    /\ aborted # {}
    /\ lastOp.op = "execute" /\ lastOp.live < NThreads /\ lastOp.live >= 1
    /\ lastOp.arg \in Range(finished)

\* work left to the threads: every step of a thread lowers it
Rank(p) ==
    CASE p = "stmt_end" -> 6
      [] p = "job" -> 5
      [] p = "lock" -> 4
      [] p = "recv" -> 3
      [] OTHER -> 0
RECURSIVE SumRank(_)
SumRank(T) ==
    IF T = {} THEN 0
    ELSE LET t == CHOOSE x \in T : TRUE IN Rank(pc[t]) + SumRank(T \ {t})
WorkLeft == SumRank(Tids) + 4 * Len(queue)

\* C20: once drop has returned, the threads still running end after a
\* finite number of steps: as long as one of them runs, some thread can
\* take a step (none is blocked for good), and every step lowers the work
\* left; a thread takes the messages left in the channel first, for it
\* ends by a failed recv or a failed lock only when the channel is closed
\* and empty; the failed recv poisons the mutex, and a thread that finds
\* the mutex poisoned ends at once.
NoWorkerOutlivesPool ==
    /\ []((pool = "dropped" /\ LiveThreads > 0) =>
             ENABLED (\E t \in Tids : WorkerStep(t)))
    /\ [][ pool = "dropped" => (WorkLeft' < WorkLeft /\ pool' = "dropped") ]_vars
    /\ [][ \A t \in Tids :
             /\ (pc[t] = "recv" /\ pc'[t] = "panicked")
                   => /\ channel = "closed" /\ queue = <<>>
                      /\ poisoned' /\ ~mutexLocked'
             /\ (pc[t] = "lock" /\ pc'[t] = "panicked")
                   => /\ poisoned /\ channel = "closed" /\ queue = <<>>
             /\ (pc[t] = "lock" /\ poisoned /\ pc'[t] # pc[t])
                   => pc'[t] = "panicked" ]_vars
    /\ [](poisoned => (channel = "closed" /\ queue = <<>> /\ ~mutexLocked))

\* C20 (under fair scheduling): once drop has returned no thread is left
\* running in the end.
NoWorkerOutlivesPoolFair == (pool = "dropped") ~> (LiveThreads = 0)

\* C20 witness: drop has returned from a pool shrunk to no tracked worker;
\* the two threads the shrink removed have run the submitted job and have
\* both ended, one by the failed recv and the other by the poisoned mutex.
NoWorkerOutlivesPoolWitness ==
    /\ pool = "dropped"
    /\ workers = <<>> /\ shrunk
    /\ poisoned
    /\ LiveThreads = 0
    /\ Cardinality({t \in Tids : pc[t] = "panicked"}) >= 2
    /\ aborted = {} /\ Len(finished) >= 1 /\ queue = <<>>

====
